---- MODULE Spec2Model ----
(***************************************************************************)
(* Deep B-spline activations (models/deepBspline_base.py) and the network  *)
(* level queries over them (models/basemodel.py).                          *)
(*                                                                         *)
(* Tensor entries are exact rationals <<numerator, denominator>> in lowest *)
(* terms with a positive denominator: the properties checked here are the  *)
(* ones of the numeric algorithm in exact arithmetic, not of rounding.     *)
(* The one exception is the index of the left coefficient, an integer that *)
(* rounding can move: it is also computed in float32 (SpecIndex).          *)
(* Python indexes are 0-based; a tensor t is a sequence and t[k] of the    *)
(* source is At(t, k) here.                                                *)
(***************************************************************************)
EXTENDS Integers, Sequences, FiniteSets, TLC

VARIABLES
    spline,   \* the DeepBSplineBase instance: size, grid, num_activations,
              \* save_memory and the parameter coefficients_vect_
    ctx,      \* what DeepBSpline_Func.forward saved for backward
    call,     \* the last call made: its name, arguments, results and the
              \* instance it started from
    created,  \* the instance (the layer, or the network) as it was constructed
    net       \* the BaseModel: its modules, spline family and parameter names

vars == <<spline, ctx, call, created, net>>

----------------------------------------------------------------------------
\* Bounds of the model.

\* Initial coefficients are the integers -1 .. MaxCoef.
MaxCoef == 1

\* Spline sizes (odd, >= 3) and (num_activations, size) shapes of a layer.
Shapes == {<<1, 5>>, <<2, 3>>}

\* Grid spacings (positive).
Grids == {<<1, 1>>, <<2, 1>>}

\* Evaluated layers: (num_activations, size, largest batch).
EvalShapes == {<<1, 5, 1>>, <<1, 3, 2>>, <<2, 3, 1>>}

\* Upstream gradient entries.
GradVals == {<<1, 1>>, <<-2, 1>>}

\* Thresholds handed to apply_threshold (non-negative).
Thresholds == {<<0, 1>>, <<3, 2>>, <<3, 1>>}

----------------------------------------------------------------------------
\* Exact arithmetic on tensor entries.

Abs(n) == IF n < 0 THEN -n ELSE n

RECURSIVE GCD(_, _)
GCD(a, b) == IF b = 0 THEN a ELSE GCD(b, a % b)

\* The rational n/d (d # 0) in lowest terms.
Q(n, d) ==
    LET s == IF d < 0 THEN -1 ELSE 1
        g == GCD(Abs(n), Abs(d))
    IN  <<(s * n) \div g, (s * d) \div g>>

R(n) == <<n, 1>>
Zero == R(0)
One == R(1)

add(a, b) == Q(a[1] * b[2] + b[1] * a[2], a[2] * b[2])
neg(a) == <<-a[1], a[2]>>
sub(a, b) == add(a, neg(b))
mul(a, b) == Q(a[1] * b[1], a[2] * b[2])
div(a, b) == Q(a[1] * b[2], a[2] * b[1])
abs(a) == <<Abs(a[1]), a[2]>>
lt(a, b) == a[1] * b[2] < b[1] * a[2]
le(a, b) == a[1] * b[2] <= b[1] * a[2]

\* torch.floor, as an integer.
floor(a) == a[1] \div a[2]

\* Tensor.clamp(min=lo, max=hi), clamp(max=hi) and clamp(min=lo).
clamp_max(a, hi) == IF lt(hi, a) THEN hi ELSE a
clamp_min(a, lo) == IF lt(a, lo) THEN lo ELSE a
clamp(a, lo, hi) == clamp_max(clamp_min(a, lo), hi)

\* The tensor with the given entries, as a sequence.
Tensor(entries) == entries \o <<>>

\* t[k] with a 0-based k.
At(t, k) == t[k + 1]

RECURSIVE SumSeq(_)
SumSeq(s) == IF s = <<>> THEN Zero ELSE add(s[1], SumSeq(Tail(s)))

----------------------------------------------------------------------------
\* DeepBSplineBase: the views on the coefficients.

\* zero_knot_indexes[i]: index in coefficients_vect_ of knot 0 of activation i.
init_zero_knot_indexes(self) ==
    Tensor([i \in 1..self.num_activations |->
               (i - 1) * self.size + (self.size \div 2)])

D2_filter_not_scaled(self) ==
    Tensor([k \in 1..3 |-> R(<<1, -2, 1>>[k])])

\* D2_filter = [1, -2, 1] / grid.
init_derivative_filters(self) ==
    Tensor([k \in 1..3 |-> div(R(<<1, -2, 1>>[k]), self.grid)])

\* vect.view(num_activations, size).
view2d(vect, n, size) ==
    Tensor([i \in 1..n |-> Tensor([j \in 1..size |-> vect[(i - 1) * size + j]])])

\* matrix.view(-1).
view1d(m) ==
    IF m = <<>> THEN <<>>
    ELSE Tensor([k \in 1..(Len(m) * Len(m[1])) |->
                    m[((k - 1) \div Len(m[1])) + 1][((k - 1) % Len(m[1])) + 1]])

coefficients(self) ==
    view2d(self.coefficients_vect_, self.num_activations, self.size)

\* F.conv1d of one row with a filter, no padding ("valid").
conv1d(row, filter) ==
    Tensor([j \in 1..(Len(row) - Len(filter) + 1) |->
        SumSeq(Tensor([k \in 1..Len(filter) |-> mul(filter[k], row[j + k - 1])]))])

relu_slopes(self) ==
    LET c == coefficients(self)
        D2_filter == init_derivative_filters(self)
    IN  Tensor([i \in 1..self.num_activations |-> conv1d(c[i], D2_filter)])

\* get_grid_tensor: the knot locations, (num_activations, size).
grid_tensor(self) ==
    Tensor([i \in 1..self.num_activations |->
        Tensor([j \in 1..self.size |->
                   mul(R(j - 1 - (self.size \div 2)), self.grid)])])

----------------------------------------------------------------------------
\* The sparsifier and the slope-to-coefficient converter.

\* DeepSplineBase.apply_threshold (the parent class): the relu slopes with
\* every entry of absolute value below the threshold set to zero.
super_apply_threshold(self, threshold) ==
    LET slopes == relu_slopes(self)
    IN  Tensor([i \in 1..self.num_activations |->
            Tensor([j \in 1..(self.size - 2) |->
                IF lt(abs(slopes[i][j]), threshold) THEN Zero ELSE slopes[i][j]])])

\* The loop body for one i of range(2, size), on every activation at once.
iterative_step_no_grid(c, slopes, grid, i) ==
    Tensor([u \in 1..Len(c) |->
        [c[u] EXCEPT ![i + 1] =
            add(add(sub(c[u][i], c[u][i - 1]), slopes[u][i - 1]), c[u][i])]])

iterative_step_single_difference(c, slopes, grid, i) ==
    Tensor([u \in 1..Len(c) |->
        [c[u] EXCEPT ![i + 1] =
            add(sub(c[u][i], c[u][i - 1]), mul(slopes[u][i - 1], grid))]])

iterative_step(c, slopes, grid, i) ==
    Tensor([u \in 1..Len(c) |->
        [c[u] EXCEPT ![i + 1] =
            add(add(sub(c[u][i], c[u][i - 1]), mul(slopes[u][i - 1], grid)),
                c[u][i])]])

RECURSIVE iterative_loop_stops_early(_, _, _, _, _)
iterative_loop_stops_early(c, slopes, grid, i, size) ==
    IF i >= size - 1 THEN c
    ELSE iterative_loop_stops_early(iterative_step(c, slopes, grid, i), slopes,
                                    grid, i + 1, size)

RECURSIVE iterative_loop(_, _, _, _, _)
iterative_loop(c, slopes, grid, i, size) ==
    IF i >= size THEN c
    ELSE iterative_loop(iterative_step(c, slopes, grid, i), slopes, grid, i + 1, size)

iterative_keeps_first_only(self, slopes) ==
    LET c == coefficients(self)
        zeroed == Tensor([u \in 1..self.num_activations |->
                      Tensor([j \in 1..self.size |->
                                 IF j <= 1 THEN c[u][j] ELSE Zero])])
    IN  iterative_loop(zeroed, slopes, self.grid, 2, self.size)

\* The coefficients the method returns.  They are a view of the parameter:
\* the method writes them in place.
iterative_relu_slopes_to_coefficients(self, slopes) ==
    LET c == coefficients(self)
        zeroed == Tensor([u \in 1..self.num_activations |->
                      Tensor([j \in 1..self.size |->
                                 IF j <= 2 THEN c[u][j] ELSE Zero])])
    IN  iterative_loop(zeroed, slopes, self.grid, 2, self.size)

----------------------------------------------------------------------------
\* DeepBSpline_Func: the spline operator on a (batch, num_activations) tensor
\* x (the trailing spatial dimensions have one entry).

\* The batch and the activation indexes of x.
Rows(x) == 1..Len(x)
Cols(x) == 1..Len(x[1])

\* Clamp to [leftmost knot, second rightmost knot], then the fraction to the
\* left knot and the index of the left coefficient in coefficients_vect.
left_knot(x, grid, zero_knot_indexes, size) ==
    LET x_clamped == Tensor([b \in Rows(x) |-> Tensor([u \in Cols(x) |->
            clamp(x[b][u], neg(mul(grid, R(size \div 2))),
                  mul(grid, R(size \div 2 - 1)))])])
        floored_x == Tensor([b \in Rows(x) |-> Tensor([u \in Cols(x) |->
            floor(div(x_clamped[b][u], grid))])])
    IN  [fracs |-> Tensor([b \in Rows(x) |-> Tensor([u \in Cols(x) |->
                      sub(div(x_clamped[b][u], grid), R(floored_x[b][u]))])]),
         indexes |-> Tensor([b \in Rows(x) |-> Tensor([u \in Cols(x) |->
                      zero_knot_indexes[u] + floored_x[b][u]])])]

extrapolations_right_from_last_knot(x, c, grid, size) ==
    LET leftmost_slope == Tensor([u \in 1..Len(c) |->
            div(sub(At(c[u], 1), At(c[u], 0)), grid)])
        rightmost_slope == Tensor([u \in 1..Len(c) |->
            div(sub(At(c[u], size - 1), At(c[u], size - 2)), grid)])
    IN  Tensor([b \in Rows(x) |-> Tensor([u \in Cols(x) |->
            add(mul(clamp_max(add(x[b][u], mul(grid, R(size \div 2))), Zero),
                    leftmost_slope[u]),
                mul(clamp_min(sub(x[b][u], mul(grid, R(size \div 2))), Zero),
                    rightmost_slope[u]))])])

\* linearExtrapolations: zero inside the clamped range, the boundary slope
\* times the distance to it outside.  c is the (num_activations, size) view.
linear_extrapolations(x, c, grid, size) ==
    LET leftmost_slope == Tensor([u \in 1..Len(c) |->
            div(sub(At(c[u], 1), At(c[u], 0)), grid)])
        rightmost_slope == Tensor([u \in 1..Len(c) |->
            div(sub(At(c[u], size - 1), At(c[u], size - 2)), grid)])
    IN  Tensor([b \in Rows(x) |-> Tensor([u \in Cols(x) |->
            add(mul(clamp_max(add(x[b][u], mul(grid, R(size \div 2))), Zero),
                    leftmost_slope[u]),
                mul(clamp_min(sub(x[b][u], mul(grid, R(size \div 2 - 1))), Zero),
                    rightmost_slope[u]))])])

\* DeepBSpline_Func.forward: the output and what ctx.save_for_backward got.
DeepBSpline_Func_forward(x, coefficients_vect, grid, zero_knot_indexes, size, save_memory) ==
    LET k == left_knot(x, grid, zero_knot_indexes, size)
        fracs == k.fracs
        indexes == k.indexes
        activation_output == Tensor([b \in Rows(x) |-> Tensor([u \in Cols(x) |->
            add(mul(At(coefficients_vect, indexes[b][u] + 1), fracs[b][u]),
                mul(At(coefficients_vect, indexes[b][u]),
                    sub(One, fracs[b][u])))])])
    IN  IF save_memory = FALSE
        THEN [output |-> activation_output,
              saved |-> <<save_memory, fracs, coefficients_vect, indexes, grid>>]
        ELSE LET num_activations == Len(x[1])
                 c == view2d(coefficients_vect, num_activations, size)
                 linearExtrapolations == linear_extrapolations(x, c, grid, size)
             IN  [output |-> Tensor([b \in Rows(x) |-> Tensor([u \in Cols(x) |->
                        add(activation_output[b][u],
                            linearExtrapolations[b][u])])]),
                  saved |-> <<save_memory, x, coefficients_vect, grid,
                              zero_knot_indexes, size>>]

RECURSIVE scatter_overwrite(_, _, _)
scatter_overwrite(t, index, src) ==
    IF index = <<>> THEN t
    ELSE scatter_overwrite([t EXCEPT ![index[1] + 1] = src[1]],
                           Tail(index), Tail(src))

\* t.scatter_add_(0, index, src): t[index[k]] += src[k] for every k.
RECURSIVE scatter_add(_, _, _)
scatter_add(t, index, src) ==
    IF index = <<>> THEN t
    ELSE scatter_add([t EXCEPT ![index[1] + 1] = add(@, src[1])],
                     Tail(index), Tail(src))

grad_x_entry_times_grid(coefficients_vect, index, grid, g) ==
    mul(mul(sub(At(coefficients_vect, index + 1), At(coefficients_vect, index)),
            grid), g)

\* One entry of grad_x.
grad_x_entry(coefficients_vect, index, grid, g) ==
    mul(div(sub(At(coefficients_vect, index + 1), At(coefficients_vect, index)),
            grid), g)

extrapolation_gradients_left_only(grad, x, indexes, grid, size, grad_out) ==
    LET idx == view1d(indexes)
        g == view1d(grad_out)
        xs == view1d(x)
        E == 1..Len(idx)
        tmp1 == Tensor([e \in E |->
                    div(clamp_max(add(xs[e], mul(grid, R(size \div 2))), Zero), grid)])
        g1 == scatter_add(grad, idx, Tensor([e \in E |-> mul(neg(tmp1[e]), g[e])]))
    IN  scatter_add(g1, Tensor([e \in E |-> idx[e] + 1]),
                    Tensor([e \in E |-> mul(tmp1[e], g[e])]))

\* The save_memory branch of backward: the gradients of the linear
\* extrapolations, added to the coefficient gradients.
extrapolation_gradients(grad, x, indexes, grid, size, grad_out) ==
    LET idx == view1d(indexes)
        g == view1d(grad_out)
        xs == view1d(x)
        E == 1..Len(idx)
        tmp1 == Tensor([e \in E |->
                    div(clamp_max(add(xs[e], mul(grid, R(size \div 2))), Zero), grid)])
        g1 == scatter_add(grad, idx, Tensor([e \in E |-> mul(neg(tmp1[e]), g[e])]))
        g2 == scatter_add(g1, Tensor([e \in E |-> idx[e] + 1]),
                          Tensor([e \in E |-> mul(tmp1[e], g[e])]))
        tmp2 == Tensor([e \in E |->
                    div(clamp_min(sub(xs[e], mul(grid, R(size \div 2 - 1))), Zero),
                        grid)])
        g3 == scatter_add(g2, idx, Tensor([e \in E |-> mul(neg(tmp2[e]), g[e])]))
    IN  scatter_add(g3, Tensor([e \in E |-> idx[e] + 1]),
                    Tensor([e \in E |-> mul(tmp2[e], g[e])]))

\* DeepBSpline_Func.backward on the saved tensors: grad_x and
\* grad_coefficients_vect.
DeepBSpline_Func_backward(saved, grad_out) ==
    LET save_memory == At(saved, 0)
        coefficients_vect == At(saved, 2)
        grid == IF save_memory = FALSE THEN At(saved, 4) ELSE At(saved, 3)
        k == IF save_memory = FALSE
             THEN [fracs |-> At(saved, 1), indexes |-> At(saved, 3)]
             ELSE left_knot(At(saved, 1), grid, At(saved, 4), At(saved, 5))
        fracs == view1d(k.fracs)
        idx == view1d(k.indexes)
        g == view1d(grad_out)
        E == 1..Len(idx)
        zeros == Tensor([j \in 1..Len(coefficients_vect) |-> Zero])
        right == scatter_add(zeros, Tensor([e \in E |-> idx[e] + 1]),
                             Tensor([e \in E |-> mul(fracs[e], g[e])]))
        both == scatter_add(right, idx,
                            Tensor([e \in E |-> mul(sub(One, fracs[e]), g[e])]))
    IN  [grad_x |-> Tensor([b \in Rows(grad_out) |-> Tensor([u \in Cols(grad_out) |->
                       grad_x_entry(coefficients_vect, k.indexes[b][u], grid,
                                    grad_out[b][u])])]),
         grad_coefficients_vect |->
             IF save_memory = TRUE
             THEN extrapolation_gradients(both, At(saved, 1), k.indexes, grid,
                                          At(saved, 5), grad_out)
             ELSE both]

----------------------------------------------------------------------------
\* DeepBSplineBase.forward and the gradients autograd returns for it.

\* The output, and what the operator saved.  x is the reshaped input, with
\* x.size(1) = num_activations.
DeepBSplineBase_forward(self, x) ==
    LET f == DeepBSpline_Func_forward(x, self.coefficients_vect_, self.grid,
                 init_zero_knot_indexes(self), self.size, self.save_memory)
    IN  IF self.save_memory = FALSE
        THEN LET linearExtrapolations ==
                     linear_extrapolations(x, coefficients(self), self.grid, self.size)
             IN  [output |-> Tensor([b \in Rows(x) |-> Tensor([u \in Cols(x) |->
                        add(f.output[b][u], linearExtrapolations[b][u])])]),
                  saved |-> f.saved]
        ELSE f

extrapolations_autograd_left_only(self, x, grad_out) ==
    LET size == self.size
        E == {<<b, u>> : b \in Rows(x), u \in Cols(x)}
        left == [u \in Cols(x) |-> SumSeq(Tensor([b \in Rows(x) |->
                    mul(clamp_max(add(x[b][u], mul(self.grid, R(size \div 2))), Zero),
                        grad_out[b][u])]))]
        right == [u \in Cols(x) |-> Zero]
        \* the gradient of the (num_activations, size) view, column j 0-based
        entry(u, j) ==
            add(add(IF j = 1 THEN div(left[u], self.grid) ELSE Zero,
                    IF j = 0 THEN neg(div(left[u], self.grid)) ELSE Zero),
                add(IF j = size - 1 THEN div(right[u], self.grid) ELSE Zero,
                    IF j = size - 2 THEN neg(div(right[u], self.grid)) ELSE Zero))
    IN  view1d(Tensor([u \in 1..self.num_activations |->
                   Tensor([j \in 1..size |-> entry(u, j - 1)])]))

\* What autograd adds to the gradient of coefficients_vect_ for the linear
\* extrapolations computed outside the operator (save_memory = False):
\* these are linear in leftmost_slope and rightmost_slope, which are
\* differences of two coefficients divided by grid; x is detached.
extrapolations_autograd(self, x, grad_out) ==
    LET size == self.size
        E == {<<b, u>> : b \in Rows(x), u \in Cols(x)}
        left == [u \in Cols(x) |-> SumSeq(Tensor([b \in Rows(x) |->
                    mul(clamp_max(add(x[b][u], mul(self.grid, R(size \div 2))), Zero),
                        grad_out[b][u])]))]
        right == [u \in Cols(x) |-> SumSeq(Tensor([b \in Rows(x) |->
                    mul(clamp_min(sub(x[b][u], mul(self.grid, R(size \div 2 - 1))),
                                  Zero),
                        grad_out[b][u])]))]
        \* the gradient of the (num_activations, size) view, column j 0-based
        entry(u, j) ==
            add(add(IF j = 1 THEN div(left[u], self.grid) ELSE Zero,
                    IF j = 0 THEN neg(div(left[u], self.grid)) ELSE Zero),
                add(IF j = size - 1 THEN div(right[u], self.grid) ELSE Zero,
                    IF j = size - 2 THEN neg(div(right[u], self.grid)) ELSE Zero))
    IN  view1d(Tensor([u \in 1..self.num_activations |->
                   Tensor([j \in 1..size |-> entry(u, j - 1)])]))

\* output.backward(grad_out): the gradient of the input and of
\* coefficients_vect_.
autograd_backward(self, saved, x, grad_out) ==
    LET f == DeepBSpline_Func_backward(saved, grad_out)
    IN  IF self.save_memory = FALSE
        THEN LET extra == extrapolations_autograd(self, x, grad_out)
             IN  [grad_x |-> f.grad_x,
                  grad_coefficients_vect |->
                      Tensor([j \in 1..Len(extra) |->
                                 add(f.grad_coefficients_vect[j], extra[j])])]
        ELSE f

----------------------------------------------------------------------------
\* States and actions.

CoefVals == {R(n) : n \in -1..MaxCoef}

RECURSIVE Vectors(_)
Vectors(len) ==
    IF len = 0 THEN {<<>>}
    ELSE {<<v>> \o t : v \in CoefVals, t \in Vectors(len - 1)}

DeepBSplineBase(num_activations, size, grid, save_memory, cv) ==
    [num_activations |-> num_activations, size |-> size, grid |-> grid,
     save_memory |-> save_memory, coefficients_vect_ |-> cv]

NoNet == [modules |-> <<>>]

InitSparsify ==
    /\ \E sh \in Shapes, g \in Grids :
          \E cv \in Vectors(sh[1] * sh[2]) :
              spline = DeepBSplineBase(sh[1], sh[2], g, FALSE, cv)
    /\ created = spline
    /\ ctx = <<>>
    /\ call = [op |-> "init"]
    /\ net = NoNet

\* module.apply_threshold(threshold)
apply_threshold(threshold) ==
    LET new_relu_slopes == super_apply_threshold(spline, threshold)
    IN  /\ spline' = [spline EXCEPT !.coefficients_vect_ =
                 view1d(iterative_relu_slopes_to_coefficients(spline, new_relu_slopes))]
        /\ call' = [op |-> "apply_threshold", threshold |-> threshold,
                    new_relu_slopes |-> new_relu_slopes, before |-> spline]
        /\ UNCHANGED <<ctx, created, net>>

ZeroSlopes(self) ==
    Tensor([i \in 1..self.num_activations |->
               Tensor([j \in 1..(self.size - 2) |-> Zero])])

\* module.iterative_relu_slopes_to_coefficients(slopes), called on its own
\* with the module's relu_slopes or with all-zero slopes.  The returned
\* coefficients are a view of the parameter, which holds them afterwards.
call_iterative_relu_slopes_to_coefficients(slopes) ==
    LET result == iterative_relu_slopes_to_coefficients(spline, slopes)
    IN  /\ spline' = [spline EXCEPT !.coefficients_vect_ = view1d(result)]
        /\ call' = [op |-> "iterative_relu_slopes_to_coefficients",
                    relu_slopes |-> slopes, result |-> result, before |-> spline]
        /\ UNCHANGED <<ctx, created, net>>

NextSparsify ==
    \/ \E t \in Thresholds : apply_threshold(t)
    \/ \E slopes \in {relu_slopes(spline), ZeroSlopes(spline)} :
          call_iterative_relu_slopes_to_coefficients(slopes)

SpecSparsify == InitSparsify /\ [][NextSparsify]_vars

----------------------------------------------------------------------------
\* Properties of the converter and the sparsifier (SpecSparsify).

\* C1 (round trip): relu_slopes of the coefficients, then the inverse
\* recurrence seeded with the first two coefficients, gives the original
\* coefficients back, entry by entry.
C1_RoundTrip ==
    (/\ call.op = "iterative_relu_slopes_to_coefficients"
     /\ call.relu_slopes = relu_slopes(call.before))
        => call.result = coefficients(call.before)

C1_Witness ==
    /\ call.op = "iterative_relu_slopes_to_coefficients"
    /\ call.relu_slopes = relu_slopes(call.before)
    /\ call.before.size = 5
    /\ call.before.grid = <<2, 1>>
    /\ \A j \in 1..3 : call.relu_slopes[1][j] # Zero
    /\ call.result = coefficients(call.before)

\* C2 (invariant I3): whatever calls were made, the first two coefficients
\* of every activation are those the instance was constructed with, and the
\* coefficient vector has num_activations * size entries.
C2_FirstTwoPreserved ==
    /\ Len(spline.coefficients_vect_) = spline.num_activations * spline.size
    /\ LET now == coefficients(spline)
           first == coefficients(created)
       IN  \A u \in 1..spline.num_activations : \A j \in 1..2 :
               now[u][j] = first[u][j]

\* Two thresholds in a row each changed coefficients beyond the second one.
C2_Witness ==
    /\ call.op = "apply_threshold"
    /\ spline.num_activations = 2
    /\ call.before.coefficients_vect_ # created.coefficients_vect_
    /\ \A u \in 1..2 : coefficients(spline)[u][3] # coefficients(created)[u][3]
    /\ \A u \in 1..2 : \A j \in 1..2 :
          coefficients(spline)[u][j] = coefficients(created)[u][j]

\* C7 (apply_threshold postcondition): the relu slopes recomputed from the
\* rebuilt coefficients are the thresholded slopes: zero where the old slope
\* was below the threshold in absolute value, the old slope elsewhere.
C7_ThresholdPostcondition ==
    call.op = "apply_threshold" =>
        LET old == relu_slopes(call.before)
            new == relu_slopes(spline)
        IN  \A u \in 1..spline.num_activations : \A j \in 1..(spline.size - 2) :
                new[u][j] = IF lt(abs(old[u][j]), call.threshold)
                            THEN Zero ELSE old[u][j]

\* A call that zeroed one slope and kept another, non-zero one.
C7_Witness ==
    /\ call.op = "apply_threshold"
    /\ spline.size = 5
    /\ \E j, k \in 1..3 :
          /\ relu_slopes(call.before)[1][j] # Zero
          /\ relu_slopes(spline)[1][j] = Zero
          /\ relu_slopes(spline)[1][k] # Zero
          /\ relu_slopes(spline)[1][k] = relu_slopes(call.before)[1][k]

\* The slopes of activation u are all zero beyond some index that is not the
\* last one.
ZeroBeyondSomeIndex(slopes) ==
    \E k \in 1..(Len(slopes) - 1) : \A j \in (k + 1)..Len(slopes) : slopes[j] = Zero

\* C8 as stated (zero-slope invariance): slopes all zero beyond some index
\* and a positive threshold leave the coefficients of the activation unchanged.
C8_AsStated ==
    (call.op = "apply_threshold" /\ lt(Zero, call.threshold)) =>
        \A u \in 1..spline.num_activations :
            ZeroBeyondSomeIndex(relu_slopes(call.before)[u])
                => coefficients(spline)[u] = coefficients(call.before)[u]

\* No slope is non-zero and below the threshold in absolute value.
NoSmallSlope(slopes, threshold) ==
    \A j \in 1..Len(slopes) :
        slopes[j] = Zero \/ ~lt(abs(slopes[j]), threshold)

\* C8 amended: slopes all zero beyond some index, none of the others non-zero
\* and below the positive threshold, leave the coefficients unchanged.
C8_ZeroSlopeInvariance ==
    (call.op = "apply_threshold" /\ lt(Zero, call.threshold)) =>
        LET old == relu_slopes(call.before)
        IN  \A u \in 1..spline.num_activations :
                (/\ ZeroBeyondSomeIndex(old[u])
                 /\ NoSmallSlope(old[u], call.threshold))
                    => coefficients(spline)[u] = coefficients(call.before)[u]

C8_Witness ==
    /\ call.op = "apply_threshold"
    /\ lt(Zero, call.threshold)
    /\ relu_slopes(call.before)[1][1] # Zero
    /\ ZeroBeyondSomeIndex(relu_slopes(call.before)[1])
    /\ NoSmallSlope(relu_slopes(call.before)[1], call.threshold)
    /\ coefficients(spline)[1] = coefficients(call.before)[1]

----------------------------------------------------------------------------
\* Evaluation: forward and backward (SpecEval).

\* A coefficient vector with no two entries alike in a row of 3 or of 5.
DenseCoefficients == <<R(2), R(-1), R(0), R(3), R(1), R(-2)>>

\* Coefficient vectors of the evaluated layers: those with at most one
\* non-zero entry (forward and backward are linear in the coefficients) and
\* a dense one.
EvalVectors(len) ==
    {v \in Vectors(len) : Cardinality({j \in 1..len : v[j] # Zero}) <= 1}
        \cup {SubSeq(DenseCoefficients, 1, len)}

\* The layer of the spec's examples: size 5, grid 1, coefficients 0..4.
ExampleLayer(save_memory) ==
    DeepBSplineBase(1, 5, One, save_memory, <<R(0), R(1), R(2), R(3), R(4)>>)

\* Inputs: the multiples of grid/2 from half a cell left of the first knot to
\* half a cell right of the last one, and -10.
XVals(self) ==
    {mul(R(k), div(self.grid, R(2))) : k \in (-self.size)..self.size} \cup {R(-10)}

RECURSIVE TensorRows(_, _)
TensorRows(vals, n) ==
    IF n = 0 THEN {<<>>}
    ELSE {<<v>> \o t : v \in vals, t \in TensorRows(vals, n - 1)}

\* The (batch, n) tensors with entries in vals.
Tensors(vals, batch, n) == TensorRows(TensorRows(vals, n), batch)

MaxBatch(self) ==
    (CHOOSE sh \in EvalShapes :
        sh[1] = self.num_activations /\ sh[2] = self.size)[3]

InitEval ==
    /\ \/ \E sh \in EvalShapes, g \in Grids, m \in BOOLEAN :
             \E cv \in EvalVectors(sh[1] * sh[2]) :
                 spline = DeepBSplineBase(sh[1], sh[2], g, m, cv)
       \/ \E m \in BOOLEAN : spline = ExampleLayer(m)
    /\ created = spline
    /\ ctx = <<>>
    /\ call = [op |-> "init"]
    /\ net = NoNet

size_1_at_most_num_activations(self, x) == Len(x[1]) <= self.num_activations

\* x.size(1) == self.num_activations
size_1_is_num_activations(self, x) == Len(x[1]) = self.num_activations

\* module(input): input.size(1) is checked before the operator is applied.
forward(x) ==
    /\ IF size_1_is_num_activations(spline, x)
       THEN LET f == DeepBSplineBase_forward(spline, x)
            IN  /\ ctx' = f.saved
                /\ call' = [op |-> "forward", input |-> x, raised |-> "none",
                            output |-> f.output, before |-> spline]
       ELSE /\ ctx' = ctx
            /\ call' = [op |-> "forward", input |-> x,
                        raised |-> "AssertionError", before |-> spline]
    /\ UNCHANGED <<spline, created, net>>

\* output.backward(grad_out) after a forward; the graph is freed.
backward(grad_out) ==
    /\ call.op = "forward"
    /\ call.raised = "none"
    /\ LET r == autograd_backward(spline, ctx, call.input, grad_out)
       IN  call' = [op |-> "backward", input |-> call.input,
                    output |-> call.output, grad_out |-> grad_out,
                    grad_x |-> r.grad_x,
                    grad_coefficients_vect |-> r.grad_coefficients_vect,
                    before |-> spline]
    /\ ctx' = <<>>
    /\ UNCHANGED <<spline, created, net>>

\* One pass per behaviour: a forward, then a backward.  Neither changes the
\* layer, so further passes reach no other state.
NextEval ==
    \/ /\ call.op = "init"
       /\ \E batch \in 1..MaxBatch(spline) :
             \E x \in Tensors(XVals(spline), batch, spline.num_activations) :
                 forward(x)
    \/ /\ call.op = "init"
       /\ \E width \in {spline.num_activations - 1, spline.num_activations + 1} \ {0} :
             \E v \in {Zero, R(-10)} :
                 forward(<<Tensor([u \in 1..width |-> v])>>)
    \/ /\ call.op = "forward"
       /\ call.raised = "none"
       /\ \E g \in Tensors(GradVals, Len(call.input), Len(call.input[1])) :
              backward(g)

SpecEval == InitEval /\ [][NextEval]_vars

----------------------------------------------------------------------------
\* Properties of the evaluation (SpecEval).

LeftSlope(c, grid) == div(sub(At(c, 1), At(c, 0)), grid)
RightSlope(c, grid) == div(sub(At(c, Len(c) - 1), At(c, Len(c) - 2)), grid)

\* The segment [knots[j], knots[j+1]] (1-based j) that holds x, for x between
\* the first and the last knot; the rightmost such segment with RightOpen.
SegmentOf(knots, x) ==
    CHOOSE j \in 1..(Len(knots) - 1) : le(knots[j], x) /\ le(x, knots[j + 1])
RightOpenSegmentOf(knots, x) ==
    CHOOSE j \in 1..(Len(knots) - 1) : le(knots[j], x) /\ lt(x, knots[j + 1])

\* The piecewise-linear function through (knot, coefficient) of activation u,
\* continued with the boundary slopes outside the knots.
Interpolant(self, u, x) ==
    LET c == coefficients(self)[u]
        knots == grid_tensor(self)[u]
        half == mul(self.grid, R(self.size \div 2))
    IN  IF lt(x, neg(half))
        THEN add(At(c, 0), mul(LeftSlope(c, self.grid), add(x, half)))
        ELSE IF lt(half, x)
        THEN add(At(c, self.size - 1), mul(RightSlope(c, self.grid), sub(x, half)))
        ELSE LET j == SegmentOf(knots, x)
             IN  add(c[j], mul(div(sub(c[j + 1], c[j]), self.grid),
                               sub(x, knots[j])))

\* C3 (forward value): every output entry is the interpolant of its
\* activation's coefficients at the input entry, linearly continued with
\* leftSlope left of the first knot and rightSlope right of the last one;
\* at x = 0 it is coefficients[size // 2].
C3_ForwardValue ==
    (call.op = "forward" /\ call.raised = "none") =>
        \A b \in Rows(call.input) : \A u \in Cols(call.input) :
            /\ call.output[b][u] = Interpolant(call.before, u, call.input[b][u])
            /\ call.input[b][u] = Zero =>
                  call.output[b][u] =
                      At(coefficients(call.before)[u], call.before.size \div 2)

\* The spec's example: size 5, grid 1, coefficients [0,1,2,3,4], f(-10) = -8.
C3_Witness ==
    /\ call.op = "forward"
    /\ call.before.coefficients_vect_ = <<R(0), R(1), R(2), R(3), R(4)>>
    /\ call.before.grid = One
    /\ call.input = <<<<R(-10)>>>>
    /\ call.output = <<<<R(-8)>>>>

\* The layer with coefficient m (0-based, in coefficients_vect_) raised by 1.
Raised(self, m) ==
    [self EXCEPT !.coefficients_vect_[m + 1] = add(@, One)]

\* C4 (coefficient gradient): the gradient of coefficient m is the sum of
\* (1 - frac) * g over the entries whose left index is m, plus the sum of
\* frac * g over those whose left index is m - 1, plus, for every entry, g
\* times the change of its linear extrapolation per unit of coefficient m.
C4_CoefficientGradient ==
    call.op = "backward" =>
        LET self == call.before
            k == left_knot(call.input, self.grid, init_zero_knot_indexes(self),
                           self.size)
            idx == view1d(k.indexes)
            frac == view1d(k.fracs)
            g == view1d(call.grad_out)
            E == 1..Len(idx)
            extra(l) == view1d(linear_extrapolations(call.input, coefficients(l),
                                                     l.grid, l.size))
            base == extra(self)
        IN  \A m \in 0..(Len(self.coefficients_vect_) - 1) :
                At(call.grad_coefficients_vect, m) =
                    add(add(SumSeq(Tensor([e \in E |->
                                IF idx[e] = m THEN mul(sub(One, frac[e]), g[e])
                                ELSE Zero])),
                            SumSeq(Tensor([e \in E |->
                                IF idx[e] + 1 = m THEN mul(frac[e], g[e])
                                ELSE Zero]))),
                        SumSeq(Tensor([e \in E |->
                            mul(g[e], sub(extra(Raised(self, m))[e], base[e]))])))

\* The spec's example: size 5, grid 1, one entry x = 1/2, unit upstream
\* gradient: 1/2 at indexes 2 and 3, 0 elsewhere.
C4_Witness ==
    /\ call.op = "backward"
    /\ call.before.size = 5
    /\ call.before.grid = One
    /\ call.input = <<<<Q(1, 2)>>>>
    /\ call.grad_out = <<<<One>>>>
    /\ call.grad_coefficients_vect = <<Zero, Zero, Q(1, 2), Q(1, 2), Zero>>

\* The output of activation u at xv.
ForwardAt(self, u, xv) ==
    DeepBSplineBase_forward(self,
        <<Tensor([v \in 1..self.num_activations |-> xv])>>).output[1][u]

\* C5 (input gradient): the gradient of an input entry is g times the slope
\* of the segment that holds it inside the range, g times leftSlope left of
\* the first knot and g times rightSlope right of the clamp bound; that is g
\* times the derivative (to the right) of the forward output there.
C5_InputGradient ==
    call.op = "backward" =>
        LET self == call.before
            eps == div(self.grid, R(4))
        IN  \A b \in Rows(call.input) : \A u \in Cols(call.input) :
                LET x == call.input[b][u]
                    g == call.grad_out[b][u]
                    c == coefficients(self)[u]
                    knots == grid_tensor(self)[u]
                    slope ==
                        IF lt(x, knots[1]) THEN LeftSlope(c, self.grid)
                        ELSE IF lt(knots[self.size - 1], x)
                        THEN RightSlope(c, self.grid)
                        ELSE LET j == RightOpenSegmentOf(knots, x)
                             IN  div(sub(c[j + 1], c[j]), self.grid)
                IN  /\ call.grad_x[b][u] = mul(slope, g)
                    /\ call.grad_x[b][u] =
                          mul(g, div(sub(ForwardAt(self, u, add(x, eps)),
                                         ForwardAt(self, u, x)), eps))

\* An entry right of the last knot, with a non-zero gradient.
C5_Witness ==
    /\ call.op = "backward"
    /\ call.before.grid = R(2)
    /\ call.before.num_activations = 2
    /\ lt(mul(call.before.grid, R(call.before.size \div 2)), call.input[1][2])
    /\ call.grad_x[1][2] # Zero
    /\ call.grad_x[1][2] # call.grad_x[1][1]

\* C6 (memory modes): the other setting of save_memory gives the same
\* output, the same input gradient and the same coefficient gradient.
C6_MemoryModes ==
    call.op = "backward" =>
        LET other == [call.before EXCEPT !.save_memory = ~@]
            f == DeepBSplineBase_forward(other, call.input)
            r == autograd_backward(other, f.saved, call.input, call.grad_out)
        IN  /\ call.output = f.output
            /\ call.grad_x = r.grad_x
            /\ call.grad_coefficients_vect = r.grad_coefficients_vect

\* A save_memory pass with one entry left and one right of the knots whose
\* extrapolations reach the coefficient gradient.
C6_Witness ==
    /\ call.op = "backward"
    /\ call.before.save_memory = TRUE
    /\ Len(call.input) = 2
    /\ lt(call.input[1][1], grid_tensor(call.before)[1][1])
    /\ lt(grid_tensor(call.before)[1][call.before.size], call.input[2][1])
    /\ \A j \in 1..call.before.size : call.grad_coefficients_vect[j] # Zero

----------------------------------------------------------------------------
\* BaseModel: the network around the activations.

\* Weights of the Linear and Conv2d modules are the integers
\* -MaxWeight - 1 .. MaxWeight, a network has at most MaxModules modules.
MaxWeight == 1
MaxModules == 2

\* Parameter names have at most MaxNameLen characters.
MaxNameLen == 3

\* self.deepspline as set by activation_type; "None" for a standard
\* activation.
BaseModel(deepspline, spline_grid, modules, named_parameters) ==
    [deepspline |-> deepspline, spline_size |-> 3, spline_grid |-> spline_grid,
     modules |-> modules, named_parameters |-> named_parameters]

\* isinstance(module, self.deepspline), for a class self.deepspline.
isinstance(module, class) == module.type = class

\* module.totalVariation(): per activation, the l1 norm of its relu_slopes.
totalVariation(self) ==
    LET slopes == relu_slopes(self)
    IN  Tensor([u \in 1..self.num_activations |->
            SumSeq(Tensor([j \in 1..Len(slopes[u]) |-> abs(slopes[u][j])]))])

\* The points of ||s||_BV(2) = TV(2)(s) + |s(0)| + |s(1)|.
BoundaryPoints == <<Zero, One>>

\* module.fZerofOneAbs(): per activation, |f(0)| + |f(1)|.
fZerofOneAbs(self) ==
    LET f(p) == DeepBSplineBase_forward(self,
                    Tensor([b \in 1..1 |->
                        Tensor([u \in 1..self.num_activations |-> p])])).output[1]
        fzero == f(BoundaryPoints[1])
        fone == f(BoundaryPoints[2])
    IN  Tensor([u \in 1..self.num_activations |->
                   add(abs(fzero[u]), abs(fone[u]))])

RECURSIVE MaxSeq(_)
MaxSeq(s) ==
    IF Len(s) = 1 THEN s[1]
    ELSE LET m == MaxSeq(Tail(s)) IN IF lt(s[1], m) THEN m ELSE s[1]

max_weight_signed(module) == MaxSeq(module.weight)

\* module.weight.data.abs().max()
max_abs_weight(module) ==
    MaxSeq(Tensor([j \in 1..Len(module.weight) |-> abs(module.weight[j])]))

\* The loop over self.modules(), from module k on.
RECURSIVE lipschitz_loop(_, _, _, _)
lipschitz_loop(self, k, bv_product, max_weights_product) ==
    IF k > Len(self.modules) THEN mul(max_weights_product, bv_product)
    ELSE LET module == self.modules[k]
         IN  IF isinstance(module, self.deepspline)
             THEN LET module_tv == totalVariation(module.layer)
                      module_fzero_fone == fZerofOneAbs(module.layer)
                  IN  lipschitz_loop(self, k + 1,
                          mul(bv_product, add(SumSeq(module_tv),
                                              SumSeq(module_fzero_fone))),
                          max_weights_product)
             ELSE IF isinstance(module, "Linear") \/ isinstance(module, "Conv2d")
             THEN lipschitz_loop(self, k + 1, bv_product,
                      mul(max_weights_product, max_abs_weight(module)))
             ELSE lipschitz_loop(self, k + 1, bv_product, max_weights_product)

\* isinstance(module, None) raises a TypeError on the first module, which is
\* the network itself.
lipschitz_bound(self) ==
    IF self.deepspline = "None"
    THEN [raised |-> "TypeError"]
    ELSE [raised |-> "none", result |-> lipschitz_loop(self, 1, One, One)]

WeightVals == {R(n) : n \in (-MaxWeight - 1)..MaxWeight}

\* A Linear module has a weight of two entries (listed in increasing order,
\* the bound being symmetric in them), a Conv2d module a weight of one entry;
\* BatchNorm2d stands for the modules the bound ignores.
WeightModules ==
    {[type |-> "Linear", weight |-> <<a, b>>] :
         <<a, b>> \in {p \in WeightVals \X WeightVals : le(p[1], p[2])}}
    \cup {[type |-> "Conv2d", weight |-> <<a>>] : a \in {R(-2), Q(1, 2)}}
    \cup {[type |-> "BatchNorm2d", weight |-> <<R(3)>>]}

\* The activations of init_activation_list: all of size spline_size and grid
\* spline_grid for a spline family, standard activations otherwise.
ActivationModules(deepspline, size, grid) ==
    IF deepspline = "None" THEN {[type |-> "ReLU"]}
    ELSE {[type |-> deepspline,
           layer |-> DeepBSplineBase(n, size, grid, FALSE, cv)] :
              <<n, cv>> \in {<<1, <<Zero, Zero, Zero>>>>,
                             <<1, SubSeq(DenseCoefficients, 1, size)>>,
                             <<2, SubSeq(DenseCoefficients, 1, 2 * size)>>}}

RECURSIVE ModuleLists(_, _)
ModuleLists(modules, len) ==
    IF len = 0 THEN {<<>>}
    ELSE {<<m>> \o t : m \in modules, t \in ModuleLists(modules, len - 1)}

NoLayer == DeepBSplineBase(0, 3, One, FALSE, <<>>)

InitLipschitz ==
    /\ \E deepspline \in {"DeepBSpline", "None"}, grid \in Grids :
          \E len \in 0..MaxModules :
              \E modules \in ModuleLists(WeightModules
                                 \cup ActivationModules(deepspline, 3, grid), len) :
                  net = BaseModel(deepspline, grid, modules, <<>>)
    /\ spline = NoLayer
    /\ created = spline
    /\ ctx = <<>>
    /\ call = [op |-> "init"]

\* model.lipschitz_bound()
call_lipschitz_bound ==
    /\ call.op = "init"
    /\ call' = [op |-> "lipschitz_bound"] @@ lipschitz_bound(net)
    /\ UNCHANGED <<spline, ctx, created, net>>

NextLipschitz == call_lipschitz_bound

SpecLipschitz == InitLipschitz /\ [][NextLipschitz]_vars

----------------------------------------------------------------------------
\* The Lipschitz bound (SpecLipschitz).

RECURSIVE ProductOver(_, _)
ProductOver(idx, f) ==
    IF idx = {} THEN One
    ELSE LET k == CHOOSE k \in idx : TRUE
         IN  mul(f[k], ProductOver(idx \ {k}, f))

WeightLayers(model) ==
    {k \in 1..Len(model.modules) : model.modules[k].type \in {"Linear", "Conv2d"}}

SplineLayers(model) ==
    {k \in 1..Len(model.modules) : model.modules[k].type = model.deepspline}

\* Largest |w| over the entries of a weight.
MaxMagnitude(weight) ==
    CHOOSE m \in {abs(weight[j]) : j \in 1..Len(weight)} :
        \A j \in 1..Len(weight) : le(abs(weight[j]), m)

\* TV(2) + |f(0)| + |f(1)| of activation u of a layer, from its coefficients.
UnitBV(self, u) ==
    LET c == coefficients(self)[u]
    IN  add(SumSeq([j \in 1..(self.size - 2) |->
                abs(div(add(sub(c[j], mul(R(2), c[j + 1])), c[j + 2]), self.grid))]),
            add(abs(Interpolant(self, u, BoundaryPoints[1])),
                abs(Interpolant(self, u, BoundaryPoints[2]))))

\* The values a weight w can be changed to without lowering its magnitude.
LargerWeights(w) ==
    {v \in WeightVals \cup {neg(w), mul(R(2), w), mul(R(-2), w)} : le(abs(w), abs(v))}

WithWeight(model, k, j, v) ==
    [model EXCEPT !.modules[k].weight[j] = v]

\* C9 (Lipschitz monotonicity): the returned bound is the product over the
\* Linear/Conv2d modules of the largest absolute weight entry times the
\* product over the spline modules of the sum over units of TV(2) plus the
\* boundary-value magnitudes, and changing one weight of a Linear/Conv2d
\* module to a value of at least its magnitude, the splines unchanged, gives
\* a bound that is not smaller.
C9_LipschitzMonotone ==
    (call.op = "lipschitz_bound" /\ call.raised = "none") =>
        /\ call.result =
              mul(ProductOver(WeightLayers(net),
                      [k \in WeightLayers(net) |-> MaxMagnitude(net.modules[k].weight)]),
                  ProductOver(SplineLayers(net),
                      [k \in SplineLayers(net) |->
                          SumSeq([u \in 1..net.modules[k].layer.num_activations |->
                                     UnitBV(net.modules[k].layer, u)])]))
        /\ \A k \in WeightLayers(net) :
              \A j \in 1..Len(net.modules[k].weight) :
                  \A v \in LargerWeights(net.modules[k].weight[j]) :
                      le(call.result, lipschitz_bound(WithWeight(net, k, j, v)).result)

\* A bound over a spline layer and a Linear module whose negative weight of
\* largest magnitude, made larger in magnitude, raises the bound.
C9_Witness ==
    /\ call.op = "lipschitz_bound"
    /\ call.raised = "none"
    /\ SplineLayers(net) # {}
    /\ \E k \in WeightLayers(net) :
          \E j \in 1..Len(net.modules[k].weight) :
              /\ lt(net.modules[k].weight[j], Zero)
              /\ \E v \in LargerWeights(net.modules[k].weight[j]) :
                    /\ lt(v, net.modules[k].weight[j])
                    /\ lt(call.result, lipschitz_bound(WithWeight(net, k, j, v)).result)

----------------------------------------------------------------------------
\* The parameter generators of BaseModel.

\* Names are strings over Alphabet, written as sequences of characters.
Alphabet == {"c", "v", "."}

RECURSIVE Strings(_)
Strings(len) ==
    IF len = 0 THEN {<<>>}
    ELSE {<<ch>> \o s : ch \in Alphabet, s \in Strings(len - 1)}

Names == UNION {Strings(len) : len \in 1..MaxNameLen}

\* self.deepspline.parameter_names(), in the order yielded.
parameter_names(deepspline) ==
    IF deepspline = "DeepBSpline" THEN << <<"c", "v">> >>
    ELSE << <<"c", "v">>, <<"v">> >>

\* str.endswith
endswith(name, suffix) ==
    /\ Len(suffix) <= Len(name)
    /\ SubSeq(name, Len(name) - Len(suffix) + 1, Len(name)) = suffix

deepspline_param_exact_name(self, name) ==
    \E i \in 1..Len(parameter_names(self.deepspline)) :
        name = parameter_names(self.deepspline)[i]

\* The flag deepspline_param after the loop over parameter_names().
deepspline_param(self, name) ==
    \E i \in 1..Len(parameter_names(self.deepspline)) :
        endswith(name, parameter_names(self.deepspline)[i])

\* list(self.named_parameters_deepspline()), by name.  Without a spline
\* family self.deepspline is None, and the first parameter raises.
named_parameters_deepspline(self) ==
    IF self.deepspline = "None" /\ self.named_parameters # <<>>
    THEN [raised |-> "AttributeError"]
    ELSE [raised |-> "none",
          result |-> SelectSeq(self.named_parameters,
                               LAMBDA name : deepspline_param(self, name))]

\* list(self.named_parameters_no_deepspline()), by name.
named_parameters_no_deepspline(self) ==
    [raised |-> "none",
     result |-> SelectSeq(self.named_parameters,
                    LAMBDA name : ~(self.deepspline # "None"
                                    /\ deepspline_param(self, name)))]

\* self.named_parameters(): up to two parameters, of distinct names.
ParameterLists ==
    {<<>>} \cup {<<a>> : a \in Names}
           \cup {<<a, b>> : <<a, b>> \in {p \in Names \X Names : p[1] # p[2]}}

InitParams ==
    /\ \E deepspline \in {"DeepBSpline", "DeepBSplineExplicitLinear", "None"} :
          \E named_parameters \in ParameterLists :
              net = BaseModel(deepspline, One, <<>>, named_parameters)
    /\ spline = NoLayer
    /\ created = spline
    /\ ctx = <<>>
    /\ call = [op |-> "init"]

call_named_parameters_deepspline ==
    /\ call' = [op |-> "named_parameters_deepspline"]
                   @@ named_parameters_deepspline(net)
    /\ UNCHANGED <<spline, ctx, created, net>>

call_named_parameters_no_deepspline ==
    /\ call' = [op |-> "named_parameters_no_deepspline"]
                   @@ named_parameters_no_deepspline(net)
    /\ UNCHANGED <<spline, ctx, created, net>>

NextParams ==
    \/ call_named_parameters_deepspline
    \/ call_named_parameters_no_deepspline

SpecParams == InitParams /\ [][NextParams]_vars

----------------------------------------------------------------------------
\* The partition of the parameters (SpecParams).

Count(seq, x) == Cardinality({i \in 1..Len(seq) : seq[i] = x})

\* name = prefix + suffix for some prefix.
HasSuffix(name, suffix) ==
    \E k \in 0..Len(name) : name = SubSeq(name, 1, k) \o suffix

\* C10 (parameter partitioning): with a spline family, each named parameter
\* of the network is yielded once, by exactly one of
\* named_parameters_deepspline and named_parameters_no_deepspline, nothing
\* else is yielded, and it is yielded by named_parameters_deepspline exactly
\* when its name ends with one of the family's parameter_names().
C10_ParameterPartition ==
    (call.op \in {"named_parameters_deepspline", "named_parameters_no_deepspline"}
        /\ net.deepspline # "None") =>
        /\ call.raised = "none"
        /\ LET yielded_deepspline ==
                   IF call.op = "named_parameters_deepspline" THEN call.result
                   ELSE named_parameters_deepspline(net).result
               yielded_no_deepspline ==
                   IF call.op = "named_parameters_no_deepspline" THEN call.result
                   ELSE named_parameters_no_deepspline(net).result
               family_names ==
                   {parameter_names(net.deepspline)[i] :
                        i \in 1..Len(parameter_names(net.deepspline))}
           IN  /\ \A i \in 1..Len(net.named_parameters) :
                     LET name == net.named_parameters[i]
                     IN  /\ Count(yielded_deepspline, name)
                                + Count(yielded_no_deepspline, name) = 1
                         /\ Count(yielded_deepspline, name) = 1
                                <=> \E pn \in family_names : HasSuffix(name, pn)
               /\ \A i \in 1..Len(yielded_deepspline) :
                     Count(net.named_parameters, yielded_deepspline[i]) = 1
               /\ \A i \in 1..Len(yielded_no_deepspline) :
                     Count(net.named_parameters, yielded_no_deepspline[i]) = 1

\* Two parameters, one yielded as a spline parameter for its suffix after a
\* module path, the other not although it holds the characters of a name.
C10_Witness ==
    /\ call.op = "named_parameters_deepspline"
    /\ net.deepspline = "DeepBSplineExplicitLinear"
    /\ call.raised = "none"
    /\ Len(net.named_parameters) = 2
    /\ call.result = << <<".", "c", "v">> >>
    /\ net.named_parameters[1] = <<"c", "v", ".">>

\* C11 (shape mismatch): an input whose dimension 1 differs from
\* num_activations makes forward raise before the operator is applied:
\* nothing was saved for backward, there is no output, and the layer and
\* its coefficients are as they were.
C11_ShapeMismatch ==
    (call.op = "forward" /\ Len(call.input[1]) # call.before.num_activations) =>
        /\ call.raised = "AssertionError"
        /\ "output" \notin DOMAIN call
        /\ ctx = <<>>
        /\ spline = call.before
        /\ spline.coefficients_vect_ = created.coefficients_vect_
        /\ ~ ENABLED backward(Tensor([b \in 1..1 |-> Tensor([u \in 1..Len(call.input[1]) |-> One])]))

\* A layer of two activations given an input of one column, far left of the
\* knots.
C11_Witness ==
    /\ call.op = "forward"
    /\ call.raised = "AssertionError"
    /\ call.before.num_activations = 2
    /\ Len(call.input[1]) = 1
    /\ call.input[1][1] = R(-10)

\* C12 (purity of the converter): a call of
\* iterative_relu_slopes_to_coefficients returns the coefficients rebuilt
\* from the given slopes and the first two coefficients, and the stored
\* coefficients are what they were before the call.
C12_AsStated ==
    call.op = "iterative_relu_slopes_to_coefficients" =>
        /\ \A i \in 1..call.before.num_activations :
              /\ call.result[i][1] = coefficients(call.before)[i][1]
              /\ call.result[i][2] = coefficients(call.before)[i][2]
              /\ \A j \in 1..(call.before.size - 2) :
                    div(add(sub(call.result[i][j], mul(R(2), call.result[i][j + 1])),
                            call.result[i][j + 2]), call.before.grid)
                        = call.relu_slopes[i][j]
        /\ spline.coefficients_vect_ = call.before.coefficients_vect_

----------------------------------------------------------------------------
\* The index of the left coefficient in float32.
\*
\* The tensors of the layer are float32.  A float32 is written here
\* [s, m, e] for s * m * 2^e with s in {1, -1} and 2^23 <= m < 2^24, and m = 0
\* for zero; operations round to nearest, ties to even, as IEEE 754 does.
\* Only what lines 60-66 need is defined: the product of grid.item() and a
\* small integer, the comparison of clamp, the division by grid and floor.

\* Bits of a float32 significand.
MantissaBits == 24

F32(s, m, e) == [s |-> s, m |-> m, e |-> e]
F32Zero == F32(1, 0, 0)

RECURSIVE BitLength(_)
BitLength(n) == IF n = 0 THEN 0 ELSE 1 + BitLength(n \div 2)

\* The float32 nearest to s * (n + f) * 2^e, for an integer n >= 0 and a
\* fraction 0 <= f < 1 that is non-zero exactly when sticky.
RoundF32(s, n, e, sticky) ==
    IF n = 0 THEN F32Zero
    ELSE LET drop == BitLength(n) - MantissaBits
         IN  IF drop <= 0 THEN F32(s, n * 2^(-drop), e + drop)
             ELSE LET q == n \div 2^drop
                      r == n % 2^drop
                      half == 2^(drop - 1)
                      up == \/ r > half
                            \/ r = half /\ sticky
                            \/ r = half /\ ~sticky /\ q % 2 = 1
                      q1 == IF up THEN q + 1 ELSE q
                  IN  IF q1 = 2^MantissaBits
                      THEN F32(s, 2^(MantissaBits - 1), e + drop + 1)
                      ELSE F32(s, q1, e + drop)

f32_neg(a) == IF a.m = 0 THEN a ELSE F32(-a.s, a.m, a.e)

\* a < b
f32_lt(a, b) ==
    IF a.m = 0 /\ b.m = 0 THEN FALSE
    ELSE IF a.m = 0 THEN b.s = 1
    ELSE IF b.m = 0 THEN a.s = -1
    ELSE IF a.s # b.s THEN a.s < b.s
    ELSE IF a.s = 1 THEN a.e < b.e \/ (a.e = b.e /\ a.m < b.m)
    ELSE b.e < a.e \/ (a.e = b.e /\ b.m < a.m)

\* x.clamp(min=lo, max=hi)
f32_clamp(x, lo, hi) ==
    LET y == IF f32_lt(x, lo) THEN lo ELSE x
    IN  IF f32_lt(hi, y) THEN hi ELSE y

\* grid.item() * k is a product of Python floats, exact for a float32 grid
\* and a small integer k >= 0; clamp then takes it as a float32.
f32_times_int(g, k) == RoundF32(g.s, g.m * k, g.e, FALSE)

\* The quotient bits of rem / d, one per step: <<quotient, remainder>>.
RECURSIVE long_division(_, _, _, _)
long_division(rem, d, q, steps) ==
    IF steps = 0 THEN <<q, rem>>
    ELSE IF 2 * rem >= d THEN long_division(2 * rem - d, d, 2 * q + 1, steps - 1)
    ELSE long_division(2 * rem, d, 2 * q, steps - 1)

\* a / b for b # 0, correctly rounded.
f32_div(a, b) ==
    IF a.m = 0 THEN F32Zero
    ELSE LET qr == long_division(a.m % b.m, b.m, a.m \div b.m, MantissaBits + 1)
         IN  RoundF32(a.s * b.s, qr[1], a.e - b.e - (MantissaBits + 1), qr[2] # 0)

\* torch.floor, as an integer (for |a| < 2^30).
f32_floor(a) ==
    IF a.m = 0 THEN 0
    ELSE IF a.e >= 0 THEN a.s * a.m * 2^a.e
    ELSE IF -a.e <= 30 THEN
        LET q == a.m \div 2^(-a.e)
            exact == a.m % 2^(-a.e) = 0
        IN  IF a.s = 1 THEN q ELSE IF exact THEN -q ELSE -q - 1
    ELSE IF a.s = 1 THEN 0 ELSE -1

\* Lines 60-66 on float32 tensors: indexes, (batch, num_activations).
indexes_float32(x, grid, zero_knot_indexes, size) ==
    LET lo == f32_neg(f32_times_int(grid, size \div 2))
        hi == f32_times_int(grid, size \div 2 - 1)
        x_clamped == Tensor([b \in Rows(x) |-> Tensor([u \in Cols(x) |->
            f32_clamp(x[b][u], lo, hi)])])
        floored_x == Tensor([b \in Rows(x) |-> Tensor([u \in Cols(x) |->
            f32_floor(f32_div(x_clamped[b][u], grid))])])
    IN  Tensor([b \in Rows(x) |-> Tensor([u \in Cols(x) |->
            zero_knot_indexes[u] + floored_x[b][u]])])

\* float32 grids: 1, 0.5, 0.1 and 1.7 (spline_range 5.1 over 3 knots).
F32Grids ==
    {F32(1, 8388608, -23), F32(1, 8388608, -24), F32(1, 13421773, -27),
     F32(1, 14260634, -23)}

\* (num_activations, size) of the layers whose indexes are computed.
IndexShapes == {<<1, 3>>, <<2, 3>>, <<1, 5>>, <<1, 7>>, <<2, 7>>}

\* Inputs: zero, the knots next to it, the outermost knots, and +-1024,
\* far outside the range.
F32XVals(self) ==
    {F32Zero, self.grid, f32_neg(self.grid),
     f32_times_int(self.grid, self.size \div 2),
     f32_neg(f32_times_int(self.grid, self.size \div 2)),
     F32(1, 8388608, -13), F32(-1, 8388608, -13)}

InitIndex ==
    /\ \E sh \in IndexShapes, g \in F32Grids :
          spline = DeepBSplineBase(sh[1], sh[2], g, FALSE,
                                   Tensor([j \in 1..(sh[1] * sh[2]) |-> F32Zero]))
    /\ created = spline
    /\ ctx = <<>>
    /\ call = [op |-> "init"]
    /\ net = NoNet

\* The indexes DeepBSpline_Func.forward computes for a batch of one.
forward_indexes(x) ==
    /\ call.op = "init"
    /\ call' = [op |-> "forward_indexes", input |-> x, before |-> spline,
                indexes |-> indexes_float32(x, spline.grid,
                                init_zero_knot_indexes(spline), spline.size)]
    /\ UNCHANGED <<spline, ctx, created, net>>

NextIndex ==
    \E x \in Tensors(F32XVals(spline), 1, spline.num_activations) :
        forward_indexes(x)

SpecIndex == InitIndex /\ [][NextIndex]_vars

\* C13 (index safety): for every input of unit i (0-based), whatever its
\* value, the left index idx satisfies i*size <= idx and
\* idx + 1 <= i*size + size - 1: the two coefficients read and accumulated
\* into are in the block of unit i.
C13_AsStated ==
    call.op = "forward_indexes" =>
        \A b \in Rows(call.indexes) : \A u \in Cols(call.indexes) :
            LET i == u - 1
                idx == call.indexes[b][u]
            IN  /\ i * call.before.size <= idx
                /\ idx + 1 <= i * call.before.size + call.before.size - 1

----------------------------------------------------------------------------
\* Inputs on knots (SpecEval).

\* x is on a knot of the layer.
OnKnot(self, x) == \E j \in 1..self.size : grid_tensor(self)[1][j] = x

\* The index in coefficients_vect_ of the coefficient of the knot x of
\* activation u (1-based u, 0-based index).
KnotCoefficient(self, u, x) ==
    (u - 1) * self.size
        + (CHOOSE j \in 1..self.size : grid_tensor(self)[1][j] = x) - 1

IsLastKnot(self, x) == x = grid_tensor(self)[1][self.size]

AllOnKnots(self, x) ==
    \A b \in Rows(x) : \A u \in Cols(x) : OnKnot(self, x[b][u])

\* C14 as stated (on-knot edge case): for one input on a knot, the whole
\* upstream gradient is at the left coefficient coefficients_vect[idx], idx
\* being the index forward computes, and every other entry of the
\* coefficient gradient, coefficients_vect[idx + 1] included, is zero.
C14_AsStated ==
    (call.op = "backward" /\ Len(call.input) = 1 /\ call.before.num_activations = 1
        /\ OnKnot(call.before, call.input[1][1])) =>
        LET self == call.before
            k == left_knot(call.input, self.grid, init_zero_knot_indexes(self),
                           self.size)
        IN  /\ k.fracs[1][1] = Zero
            /\ \A j \in 1..Len(call.grad_coefficients_vect) :
                  call.grad_coefficients_vect[j] =
                      IF j - 1 = k.indexes[1][1] THEN call.grad_out[1][1] ELSE Zero

\* C14 (on-knot edge case): an input on a knot has frac = 0 and a left
\* index that is the knot's coefficient, except on the last knot, where it
\* is the coefficient before it; and when all inputs are on knots, each
\* entry of the coefficient gradient is the sum of the upstream gradients of
\* the inputs on its knot (the last knot included) and nothing else.
C14_OnKnotGradient ==
    /\ (call.op = "forward" /\ call.raised = "none") =>
          LET self == call.before
              k == left_knot(call.input, self.grid, init_zero_knot_indexes(self),
                             self.size)
          IN  \A b \in Rows(call.input) : \A u \in Cols(call.input) :
                  OnKnot(self, call.input[b][u]) =>
                      /\ k.fracs[b][u] = Zero
                      /\ self.save_memory = FALSE =>
                            (ctx[2][b][u] = Zero /\ ctx[4][b][u] = k.indexes[b][u])
                      /\ k.indexes[b][u] =
                            KnotCoefficient(self, u, call.input[b][u])
                                - (IF IsLastKnot(self, call.input[b][u]) THEN 1 ELSE 0)
    /\ (call.op = "backward" /\ AllOnKnots(call.before, call.input)) =>
          \A j \in 1..Len(call.grad_coefficients_vect) :
              call.grad_coefficients_vect[j] =
                  SumSeq(view1d(Tensor([b \in Rows(call.input) |->
                      Tensor([u \in Cols(call.input) |->
                          IF KnotCoefficient(call.before, u, call.input[b][u]) = j - 1
                          THEN call.grad_out[b][u] ELSE Zero])])))

\* Two inputs of one activation, one on the last knot and one on an inner
\* knot, with different upstream gradients.
C14_Witness ==
    /\ call.op = "backward"
    /\ Len(call.input) = 2
    /\ IsLastKnot(call.before, call.input[1][1])
    /\ call.input[2][1] = Zero
    /\ call.grad_out[1][1] # call.grad_out[2][1]
    /\ call.grad_coefficients_vect[call.before.size] = call.grad_out[1][1]

----------------------------------------------------------------------------
\* BaseModel.sparsify_activations, called again and again.

\* A network is sparsified at most MaxCalls times.
MaxCalls == 3

\* module.apply_threshold(threshold): the layer afterwards.
DeepBSplineBase_apply_threshold(self, threshold) ==
    [self EXCEPT !.coefficients_vect_ =
        view1d(iterative_relu_slopes_to_coefficients(self,
                   super_apply_threshold(self, threshold)))]

\* The loop over self.modules(): apply_threshold on every spline module.
\* Without a spline family isinstance(module, None) raises on the first
\* module.
sparsify_activations(self, slope_diff_threshold) ==
    IF self.deepspline = "None"
    THEN [raised |-> "TypeError", modules |-> self.modules]
    ELSE [raised |-> "none",
          modules |-> Tensor([k \in 1..Len(self.modules) |->
              IF isinstance(self.modules[k], self.deepspline)
              THEN [self.modules[k] EXCEPT !.layer =
                        DeepBSplineBase_apply_threshold(@, slope_diff_threshold)]
              ELSE self.modules[k]])]

SplineModule(deepspline, num_activations, size, grid, cv) ==
    [type |-> deepspline,
     layer |-> DeepBSplineBase(num_activations, size, grid, FALSE, cv)]

\* The sparsified networks: one activation of size 5 with any coefficients,
\* a Linear module and a layer of two activations, two layers around a
\* BatchNorm2d, and a network of standard activations.
SparsifiedModules(deepspline, grid) ==
    IF deepspline = "None"
    THEN {<<[type |-> "Linear", weight |-> <<One, R(-2)>>], [type |-> "ReLU"]>>}
    ELSE {<<SplineModule(deepspline, 1, 5, grid, cv)>> : cv \in Vectors(5)}
         \cup {<<[type |-> "Linear", weight |-> <<One, R(-2)>>],
                 SplineModule(deepspline, 2, 3, grid, DenseCoefficients)>>,
               <<SplineModule(deepspline, 1, 3, grid, <<One, Zero, One>>),
                 [type |-> "BatchNorm2d", weight |-> <<R(3)>>],
                 SplineModule(deepspline, 1, 5, grid,
                              SubSeq(DenseCoefficients, 1, 5))>>}

\* created holds the network as constructed.
InitSequence ==
    /\ \E deepspline \in {"DeepBSpline", "None"}, grid \in Grids :
          \E modules \in SparsifiedModules(deepspline, grid) :
              net = BaseModel(deepspline, grid, modules, <<>>)
    /\ created = net
    /\ spline = NoLayer
    /\ ctx = <<>>
    /\ call = [op |-> "init", thresholds |-> <<>>]

\* model.sparsify_activations(), self.slope_diff_threshold being
\* slope_diff_threshold; the call keeps the thresholds used so far.
call_sparsify_activations(slope_diff_threshold) ==
    /\ Len(call.thresholds) < MaxCalls
    /\ (call.op = "sparsify_activations" => call.raised = "none")
    /\ LET r == sparsify_activations(net, slope_diff_threshold)
       IN  /\ net' = [net EXCEPT !.modules = r.modules]
           /\ call' = [op |-> "sparsify_activations", raised |-> r.raised,
                       thresholds |-> Append(call.thresholds, slope_diff_threshold),
                       before |-> net]
    /\ UNCHANGED <<spline, ctx, created>>

NextSequence == \E t \in Thresholds : call_sparsify_activations(t)

SpecSequence == InitSequence /\ [][NextSequence]_vars

\* The largest entry of a non-empty sequence of thresholds.
MaxThreshold(thresholds) ==
    CHOOSE t \in {thresholds[n] : n \in 1..Len(thresholds)} :
        \A n \in 1..Len(thresholds) : le(thresholds[n], t)

\* C15 (sequencing of sparsification): after any sequence of calls with
\* thresholds t1..tn the coefficients of every spline layer are those a
\* single apply_threshold(max(t1..tn)) gives on the layer as constructed (so
\* the order of the thresholds does not matter), applying the last
\* threshold once more changes nothing, and every slope that was zero before
\* the last call is zero after it.
C15_SequenceIsMax ==
    (call.op = "sparsify_activations" /\ call.raised = "none") =>
        /\ \A k \in SplineLayers(net) :
              /\ net.modules[k].layer =
                    DeepBSplineBase_apply_threshold(created.modules[k].layer,
                        MaxThreshold(call.thresholds))
              /\ DeepBSplineBase_apply_threshold(net.modules[k].layer,
                        call.thresholds[Len(call.thresholds)])
                    = net.modules[k].layer
              /\ LET old == relu_slopes(call.before.modules[k].layer)
                     new == relu_slopes(net.modules[k].layer)
                 IN  \A u \in 1..Len(old) : \A j \in 1..Len(old[u]) :
                         old[u][j] = Zero => new[u][j] = Zero
        /\ \A k \in 1..Len(net.modules) :
              k \notin SplineLayers(net) => net.modules[k] = created.modules[k]

\* Three calls, the largest threshold in the middle, the first and the
\* second each changing the coefficients, and a slope that survives.
C15_Witness ==
    /\ call.op = "sparsify_activations"
    /\ call.raised = "none"
    /\ Len(net.modules) = 1
    /\ Len(call.thresholds) = 3
    /\ lt(call.thresholds[1], call.thresholds[2])
    /\ lt(call.thresholds[3], call.thresholds[2])
    /\ lt(Zero, call.thresholds[3])
    /\ LET first == DeepBSplineBase_apply_threshold(created.modules[1].layer,
                        call.thresholds[1])
       IN  /\ first # created.modules[1].layer
           /\ first # net.modules[1].layer
    /\ \E j \in 1..3 : relu_slopes(net.modules[1].layer)[1][j] # Zero

====
